---- MODULE Spec2Model ----
(***************************************************************************)
(* Port reservation, validation and allocation (package pkg) and the       *)
(* deployment pipeline (commands.DeployManuscript) of manuscript-core.     *)
(***************************************************************************)
EXTENDS Integers, Sequences, FiniteSets, TLC

VARIABLES
    op,        \* the operation this run performs ("none" before it starts)
    args,      \* the inputs of a port-function call
    ret,       \* what the call returned
    pc,        \* DeployManuscript: "idle", "loop", "exited", "completed", "returned"
    stepNo,    \* DeployManuscript: index of the next step of the loop
    ms,        \* DeployManuscript: the descriptor `ms` captured by the steps
    executed,  \* DeployManuscript: the steps started so far, in order
    effects,   \* DeployManuscript: what the steps left on the host
    report,    \* DeployManuscript: the fatal message, if the process exited
    store      \* the local configuration store as this run leaves it

vars == <<op, args, ret, pc, stepNo, ms, executed, effects, report, store>>

deployVars == <<pc, stepNo, ms, executed, effects, report, store>>

\* ------------------------------------------------------------------ bounds
MaxJobs == 2      \* longest job list of a configuration
MaxLines == 2     \* longest output (in lines) of an external tool
MaxSpan == 3      \* FindAvailablePort is exercised on ranges within 0..MaxSpan

\* ------------------------------------------------------- program constants
FlinkStart == 8081
FlinkEnd == 8181
GraphQLStart == 8082
GraphQLEnd == 8182
DbStart == 15432
DbEnd == 15532

\* ------------------------------------------------------------- data model
Names == {"a", "b"}

Manuscript(n, p, g, d) == [Name |-> n, Port |-> p, GraphQLPort |-> g, DbPort |-> d]

\* port triples (Port, GraphQLPort, DbPort) a descriptor may declare
Triples ==
    { <<0, 0, 0>>, <<8081, 0, 0>>, <<0, 8081, 0>>, <<8082, 0, 15432>>,
      <<8081, 8082, 15432>>, <<8082, 8082, 0>>, <<0, 0, 8082>>, <<0, 8083, 0>> }

Manuscripts == { Manuscript(n, t[1], t[2], t[3]) : n \in Names, t \in Triples }

SeqsUpTo(S, n) == UNION { [1..k -> S] : k \in 0..n }

\* *Config: a nil pointer, or a configuration holding a job list
NilConfig == [isNil |-> TRUE, Manuscripts |-> <<>>]

Configs == {NilConfig} \cup
           { [isNil |-> FALSE, Manuscripts |-> l] : l \in SeqsUpTo(Manuscripts, MaxJobs) }

PortReservation(p, n, t) == [Port |-> p, ManuscriptName |-> n, PortType |-> t]

\* error values
NoErr == [kind |-> "nil"]

Errorf(k, a, b, c, d) == [kind |-> k, port |-> a, first |-> b, second |-> c, role |-> d]

Wrap(ctx, e) == [kind |-> "wrapped", context |-> ctx, cause |-> e]

EmptyMap == [p \in {} |-> PortReservation(0, "", "")]

\* ------------------------------------------------------ FindReservedPorts
\* One of the three per-job checks: skip a zero port, fail on a port that is
\* already a key of the map, otherwise record the reservation.
\* variant: the reservation is recorded under the Flink role whatever the field
CheckPort_AlwaysFlink(acc, port, name, type) ==
    IF acc.err # NoErr \/ port = 0 THEN acc
    ELSE IF port \in DOMAIN acc.reserved
         THEN [reserved |-> EmptyMap, nilMap |-> TRUE,
               err |-> Errorf("port conflict", port,
                              acc.reserved[port].ManuscriptName, name,
                              acc.reserved[port].PortType)]
         ELSE [acc EXCEPT !.reserved =
                  [p \in DOMAIN acc.reserved \cup {port} |->
                      IF p = port THEN PortReservation(port, name, "Flink")
                      ELSE acc.reserved[p]]]

CheckPort(acc, port, name, type) ==
    IF acc.err # NoErr \/ port = 0 THEN acc
    ELSE IF port \in DOMAIN acc.reserved
         THEN [reserved |-> EmptyMap, nilMap |-> TRUE,
               err |-> Errorf("port conflict", port,
                              acc.reserved[port].ManuscriptName, name,
                              acc.reserved[port].PortType)]
         ELSE [acc EXCEPT !.reserved =
                  [p \in DOMAIN acc.reserved \cup {port} |->
                      IF p = port THEN PortReservation(port, name, type)
                      ELSE acc.reserved[p]]]

ReserveJob(acc, m) ==
    CheckPort(CheckPort(CheckPort(acc, m.Port, m.Name, "Flink"),
                        m.GraphQLPort, m.Name, "GraphQL"),
              m.DbPort, m.Name, "DB")

RECURSIVE ScanJobs(_, _)
ScanJobs(acc, jobs) ==
    IF jobs = <<>> THEN acc ELSE ScanJobs(ReserveJob(acc, Head(jobs)), Tail(jobs))

FindReservedPorts(config) ==
    LET start == [reserved |-> EmptyMap, nilMap |-> FALSE, err |-> NoErr]
    IN IF config.isNil THEN start ELSE ScanJobs(start, config.Manuscripts)

\* ------------------------------------------------ ValidatePortAssignments
\* variant: a reservation fails the validation whoever owns it
ValidateField_NoNameCheck(err, port, m, reserved) ==
    IF err # NoErr \/ port = 0 THEN err
    ELSE IF port \in DOMAIN reserved
         THEN Errorf("already reserved", port, reserved[port].ManuscriptName,
                     m.Name, reserved[port].PortType)
         ELSE NoErr

ValidateField(err, port, m, reserved) ==
    IF err # NoErr \/ port = 0 THEN err
    ELSE IF port \in DOMAIN reserved /\ reserved[port].ManuscriptName # m.Name
         THEN Errorf("already reserved", port, reserved[port].ManuscriptName,
                     m.Name, reserved[port].PortType)
         ELSE NoErr

ValidatePortAssignments(m, config) ==
    LET r == FindReservedPorts(config)
    IN IF r.err # NoErr THEN Wrap("failed to check reserved ports", r.err)
       ELSE ValidateField(ValidateField(ValidateField(NoErr, m.Port, m, r.reserved),
                                        m.GraphQLPort, m, r.reserved),
                          m.DbPort, m, r.reserved)

\* ------------------------------------------------------ FindAvailablePort
\* unavailablePorts is a map[int]bool: a missing key reads as false
\* variant: presence of the key is taken for its value
Unavailable_KeyPresent(unavailablePorts, port) ==
    port \in DOMAIN unavailablePorts

Unavailable(unavailablePorts, port) ==
    port \in DOMAIN unavailablePorts /\ unavailablePorts[port]

RECURSIVE ScanRange(_, _, _, _)
ScanRange(port, startPort, endPort, unavailablePorts) ==
    IF port > endPort
    THEN [port |-> 0, err |-> [kind |-> "no available ports", startPort |-> startPort,
                               endPort |-> endPort]]
    ELSE IF ~Unavailable(unavailablePorts, port)
         THEN [port |-> port, err |-> NoErr]
         ELSE ScanRange(port + 1, startPort, endPort, unavailablePorts)

\* variant: the scan starts one past startPort
FindAvailablePort_SkipFirst(startPort, endPort, unavailablePorts) ==
    ScanRange(startPort + 1, startPort, endPort, unavailablePorts)

FindAvailablePort(startPort, endPort, unavailablePorts) ==
    ScanRange(startPort, startPort, endPort, unavailablePorts)

\* ------------------------------------------------------ GetListeningPorts
\* A line of tool output is the sequence of its regexp matches; a match is
\* the captured digit string, which strconv.Atoi may reject (out of range).
Tok(v) == [digits |-> v, fits |-> TRUE]

BadTok == [digits |-> 0, fits |-> FALSE]

Atoi(tok) == [port |-> tok.digits, err |-> ~tok.fits]

\* lsof output: FindStringSubmatch keeps the first match of a line only
RECURSIVE ScanLsof(_, _)
ScanLsof(ports, lines) ==
    IF lines = <<>> THEN ports
    ELSE LET line == Head(lines)
             found == IF Len(line) > 0 /\ ~Atoi(line[1]).err
                      THEN {Atoi(line[1]).port} ELSE {}
         IN ScanLsof(ports \cup found, Tail(lines))

\* docker output: FindAllStringSubmatch keeps every match of a line
RECURSIVE ScanDocker(_, _)
ScanDocker(ports, lines) ==
    IF lines = <<>> THEN ports
    ELSE LET line == Head(lines)
             found == { Atoi(line[i]).port : i \in { j \in 1..Len(line) : ~Atoi(line[j]).err } }
         IN ScanDocker(ports \cup found, Tail(lines))

\* variant: a failing lsof is fatal too
GetListeningPorts_LsofFatal(env) ==
    IF env.lsofErr \/ env.dockerErr
    THEN [ports |-> {}, err |-> [kind |-> "failed to check Docker ports"]]
    ELSE [ports |-> ScanDocker(ScanLsof({}, env.lsofOut), env.dockerOut), err |-> NoErr]

\* env: the outcome of the two external commands
\*   [lsofErr, lsofOut, dockerErr, dockerOut]
GetListeningPorts(env) ==
    LET sys == IF env.lsofErr THEN {} ELSE ScanLsof({}, env.lsofOut)
    IN IF env.dockerErr
       THEN [ports |-> {}, err |-> [kind |-> "failed to check Docker ports"]]
       ELSE [ports |-> ScanDocker(sys, env.dockerOut), err |-> NoErr]

\* the slice built by ranging over the map: its keys once each, in any order
Slices(ports) ==
    { s \in [1..Cardinality(ports) -> ports] : { s[i] : i \in DOMAIN s } = ports }

\* -------------------------------------------------------- InitializePorts
MarkAll(ports) == [p \in ports |-> TRUE]

Mark(unavailablePorts, port) ==
    [p \in DOMAIN unavailablePorts \cup {port} |-> IF p = port THEN TRUE ELSE unavailablePorts[p]]

\* variant: the chosen port is not added to the unavailable ports
InitRole_NoMark(st, field, startPort, endPort, role) ==
    IF st.err # NoErr \/ st.ms[field] # 0 THEN st
    ELSE LET r == FindAvailablePort(startPort, endPort, st.unavailable)
         IN IF r.err # NoErr
            THEN [st EXCEPT !.err = Wrap(role, r.err)]
            ELSE [st EXCEPT !.ms = [st.ms EXCEPT ![field] = r.port]]

\* One role: allocate when the field is zero.  st = [ms, unavailable, err]
InitRole(st, field, startPort, endPort, role) ==
    IF st.err # NoErr \/ st.ms[field] # 0 THEN st
    ELSE LET r == FindAvailablePort(startPort, endPort, st.unavailable)
         IN IF r.err # NoErr
            THEN [st EXCEPT !.err = Wrap(role, r.err)]
            ELSE [ms |-> [st.ms EXCEPT ![field] = r.port],
                  unavailable |-> Mark(st.unavailable, r.port),
                  err |-> NoErr]

\* The last role's port is assigned but not added to the map.
InitLastRole(st, field, startPort, endPort, role) ==
    IF st.err # NoErr \/ st.ms[field] # 0 THEN st
    ELSE LET r == FindAvailablePort(startPort, endPort, st.unavailable)
         IN IF r.err # NoErr
            THEN [st EXCEPT !.err = Wrap(role, r.err)]
            ELSE [st EXCEPT !.ms = [st.ms EXCEPT ![field] = r.port]]

\* Returns [ms, err]: the descriptor as the call leaves it, and the error.
InitializePorts(m, config, env) ==
    LET v == ValidatePortAssignments(m, config)
        l == GetListeningPorts(env)
        r == FindReservedPorts(config)
    IN IF v # NoErr THEN [ms |-> m, err |-> v]
       ELSE IF l.err # NoErr
            THEN [ms |-> m, err |-> Wrap("failed to get listening ports", l.err)]
       ELSE IF r.err # NoErr
            THEN [ms |-> m, err |-> Wrap("failed to get reserved ports", r.err)]
       ELSE LET s0 == [ms |-> m,
                       unavailable |-> MarkAll(l.ports \cup DOMAIN r.reserved),
                       err |-> NoErr]
                s1 == InitRole(s0, "Port", FlinkStart, FlinkEnd, "Flink")
                s2 == InitRole(s1, "GraphQLPort", GraphQLStart, GraphQLEnd, "GraphQL")
                s3 == InitLastRole(s2, "DbPort", DbStart, DbEnd, "DB")
            IN [ms |-> s3.ms, err |-> s3.err]

\* ------------------------------------------------------------ environments
Env(le, lo, de, do) == [lsofErr |-> le, lsofOut |-> lo, dockerErr |-> de, dockerOut |-> do]

LsofLines == { <<>>, <<Tok(8081)>>, <<Tok(8082), Tok(8081)>>, <<BadTok, Tok(15432)>> }

DockerLines == { <<>>, <<Tok(8081)>>, <<Tok(8082), Tok(15432)>>, <<BadTok, Tok(8083)>> }

Envs == { Env(le, lo, de, do) : le \in BOOLEAN, lo \in SeqsUpTo(LsofLines, MaxLines),
                                 de \in BOOLEAN, do \in SeqsUpTo(DockerLines, MaxLines) }

\* a line publishing every port of a..b
Line(a, b) == [i \in 1..(b - a + 1) |-> Tok(a + i - 1)]

\* environments InitializePorts is run in
InitEnvs ==
    { Env(FALSE, <<>>, FALSE, <<>>),
      Env(TRUE, << <<Tok(8081)>> >>, FALSE, <<>>),
      Env(FALSE, <<>>, TRUE, <<>>),
      Env(FALSE, << <<Tok(8081)>> >>, FALSE, <<>>),
      Env(FALSE, << <<Tok(8081)>> >>, FALSE, << <<Tok(8082)>> >>),
      Env(FALSE, <<>>, FALSE, << <<Tok(8082), Tok(15432)>> >>),
      Env(FALSE, <<>>, FALSE, << Line(FlinkStart, FlinkEnd) >>),
      Env(FALSE, <<>>, FALSE, << Line(GraphQLStart, GraphQLEnd) >>),
      Env(FALSE, <<>>, FALSE, << Line(DbStart, DbEnd) >>),
      Env(FALSE, <<>>, FALSE, << Line(FlinkStart, GraphQLEnd) >>) }

\* ------------------------------------------------------------------ calls
NoArgs == [none |-> TRUE]

Init ==
    /\ op = "none"
    /\ args = NoArgs
    /\ ret = NoArgs
    /\ pc = "idle"
    /\ stepNo = 0
    /\ ms = Manuscript("", 0, 0, 0)
    /\ executed = <<>>
    /\ effects = {}
    /\ report = NoErr
    /\ store = <<>>

CallFindReservedPorts ==
    /\ op = "none"
    /\ \E c \in Configs :
          /\ args' = [config |-> c]
          /\ ret' = FindReservedPorts(c)
    /\ op' = "FindReservedPorts"
    /\ UNCHANGED deployVars

CallValidatePortAssignments ==
    /\ op = "none"
    /\ \E m \in Manuscripts, c \in Configs :
          /\ args' = [ms |-> m, config |-> c]
          /\ ret' = [err |-> ValidatePortAssignments(m, c)]
    /\ op' = "ValidatePortAssignments"
    /\ UNCHANGED deployVars

CallFindAvailablePort ==
    /\ op = "none"
    /\ \E a \in 0..MaxSpan, b \in 0..MaxSpan, keys \in SUBSET (0..(MaxSpan + 1)) :
          \E u \in [keys -> BOOLEAN] :
             /\ args' = [startPort |-> a, endPort |-> b, unavailablePorts |-> u]
             /\ ret' = [result |-> FindAvailablePort(a, b, u), unavailablePorts |-> u]
    /\ op' = "FindAvailablePort"
    /\ UNCHANGED deployVars

CallGetListeningPorts ==
    /\ op = "none"
    /\ \E e \in Envs :
          LET r == GetListeningPorts(e)
          IN \E s \in Slices(r.ports) :
                /\ args' = [env |-> e]
                /\ ret' = [result |-> s, err |-> r.err]
    /\ op' = "GetListeningPorts"
    /\ UNCHANGED deployVars

CallInitializePorts ==
    /\ op = "none"
    /\ \E m \in Manuscripts, c \in Configs, e \in InitEnvs :
          /\ args' = [ms |-> m, config |-> c, env |-> e]
          /\ ret' = InitializePorts(m, c, e)
    /\ op' = "InitializePorts"
    /\ UNCHANGED deployVars

\* ------------------------------------------------------- DeployManuscript
steps ==
    << "Step 1: Validating manuscript file",
       "Step 2: Parsing manuscript yaml",
       "Step 3: Verifying Port Initialization",
       "Step 4: Checking manuscript is already deployed",
       "Step 5: Create Directory",
       "Step 6: Create ManuscriptFile",
       "Step 7: Create DockerComposeFile",
       "Step 8: Check Docker Installed",
       "Step 9: Start Docker Containers",
       "Step 10: Check Container Status" >>

IOErr(what) == [kind |-> what]

\* what running a step's closure does: it returns err, or the process exits
\* inside it (exit = TRUE, with the message log.Fatalf printed)
Outcome(err, m, eff) == [exit |-> FALSE, fatal |-> NoErr, err |-> err, ms |-> m, effects |-> eff]

ExitInside(msg, m, eff) == [exit |-> TRUE, fatal |-> IOErr(msg), err |-> NoErr, ms |-> m, effects |-> eff]

validateManuscriptFile(readErr, empty) ==
    IF readErr THEN IOErr("failed to read manuscript file")
    ELSE IF empty THEN IOErr("manuscript file is empty")
    ELSE NoErr

copyManuscriptFile(readErr, empty, writeErr, renameErr) ==
    IF readErr THEN IOErr("failed to read source file")
    ELSE IF empty THEN IOErr("source manuscript file is empty")
    ELSE IF writeErr THEN IOErr("failed to write temporary file")
    ELSE IF renameErr THEN IOErr("failed to rename temporary file")
    ELSE NoErr

\* pkg.RunDockerPs failing ends the process inside the function
CheckManuscriptExist(m, eff, psErr, deployed) ==
    IF psErr THEN ExitInside("Error: Failed to get docker ps", m, eff)
    ELSE IF deployed THEN Outcome(IOErr("already deployed"), m, eff)
    ELSE Outcome(NoErr, m, eff)

\* pkg.ParseYAML failing ends the process inside the function
ParseManuscriptYaml(m, eff, parseErr, parsed) ==
    IF parseErr THEN ExitInside("Error: Failed to parse manuscript yaml", m, eff)
    ELSE Outcome(NoErr, parsed, eff)

\* a step implemented outside the given sources: it fails, or succeeds and
\* leaves its artefact
ExternalStep(m, eff, failed, artefact) ==
    IF failed THEN Outcome(IOErr("step error"), m, eff)
    ELSE Outcome(NoErr, m, eff \cup artefact)

\* pkg.ExecuteStepWithLoading(name, true, fn): runs fn once, returns its error
ExecuteStepWithLoading(name, o) == o.err

\* pkg.SaveConfig(path, config): persists the configuration unless it fails
SaveConfig(old, config, saveErr) == IF saveErr THEN old ELSE config

DeployStart ==
    /\ op = "none"
    /\ op' = "DeployManuscript"
    /\ \E hasArg \in BOOLEAN, exists \in BOOLEAN :
          IF ~hasArg
          THEN /\ pc' = "exited"
               /\ report' = IOErr("Error: Manuscript path is required as the first argument.")
               /\ stepNo' = 0
          ELSE IF ~exists
          THEN /\ pc' = "exited"
               /\ report' = IOErr("Error: Manuscript file does not exist")
               /\ stepNo' = 0
          ELSE /\ pc' = "loop"
               /\ report' = NoErr
               /\ stepNo' = 1
    /\ UNCHANGED <<args, ret, ms, executed, effects, store>>

\* variant: the loop goes on to the next step when a step returned an error
LoopBody_ContinueOnError(i, o) ==
    /\ executed' = Append(executed, i)
    /\ ms' = o.ms
    /\ effects' = o.effects
    /\ IF o.exit
       THEN /\ pc' = "exited"
            /\ report' = o.fatal
            /\ UNCHANGED stepNo
       ELSE /\ pc' = IF i = Len(steps) THEN "completed" ELSE "loop"
            /\ stepNo' = i + 1
            /\ UNCHANGED report
    /\ UNCHANGED <<op, args, ret, store>>

\* one iteration of `for _, step := range steps`
LoopBody(i, o) ==
    /\ executed' = Append(executed, i)
    /\ ms' = o.ms
    /\ effects' = o.effects
    /\ IF o.exit
       THEN /\ pc' = "exited"
            /\ report' = o.fatal
            /\ UNCHANGED stepNo
       ELSE LET err == ExecuteStepWithLoading(steps[i], o)
            IN IF err # NoErr
               THEN /\ pc' = "exited"
                    /\ report' = [kind |-> "step failed", name |-> steps[i], cause |-> err]
                    /\ UNCHANGED stepNo
               ELSE /\ pc' = IF i = Len(steps) THEN "completed" ELSE "loop"
                    /\ stepNo' = i + 1
                    /\ UNCHANGED report
    /\ UNCHANGED <<op, args, ret, store>>

Step1 ==
    /\ pc = "loop"
    /\ stepNo = 1
    /\ \E readErr \in BOOLEAN, empty \in BOOLEAN :
        LoopBody(1, Outcome(validateManuscriptFile(readErr, empty), ms, effects))

\* A pkg.LoadConfig error is only logged; the step goes on and returns nil.
Step2 ==
    /\ pc = "loop"
    /\ stepNo = 2
    /\ \E parseErr \in BOOLEAN, parsed \in Manuscripts, loadErr \in BOOLEAN :
        LoopBody(2, ParseManuscriptYaml(ms, effects, parseErr, parsed))

Step3 ==
    /\ pc = "loop"
    /\ stepNo = 3
    /\ \E c \in Configs, e \in InitEnvs :
        LET r == InitializePorts(ms, c, e)
        IN LoopBody(3, Outcome(r.err, r.ms, effects))

Step4 ==
    /\ pc = "loop"
    /\ stepNo = 4
    /\ \E psErr \in BOOLEAN, deployed \in BOOLEAN :
        LoopBody(4, CheckManuscriptExist(ms, effects, psErr, deployed))

Step5 ==
    /\ pc = "loop"
    /\ stepNo = 5
    /\ \E failed \in BOOLEAN : LoopBody(5, ExternalStep(ms, effects, failed, {"directory"}))

Step6 ==
    /\ pc = "loop"
    /\ stepNo = 6
    /\ \E readErr \in BOOLEAN, empty \in BOOLEAN, writeErr \in BOOLEAN, renameErr \in BOOLEAN :
        LET err == copyManuscriptFile(readErr, empty, writeErr, renameErr)
        IN LoopBody(6, Outcome(err, ms, IF err = NoErr THEN effects \cup {"manuscript file"}
                                        ELSE effects))

Step7 ==
    /\ pc = "loop"
    /\ stepNo = 7
    /\ \E failed \in BOOLEAN : LoopBody(7, ExternalStep(ms, effects, failed, {"compose file"}))

Step8 ==
    /\ pc = "loop"
    /\ stepNo = 8
    /\ \E failed \in BOOLEAN : LoopBody(8, ExternalStep(ms, effects, failed, {}))

Step9 ==
    /\ pc = "loop"
    /\ stepNo = 9
    /\ \E failed \in BOOLEAN : LoopBody(9, ExternalStep(ms, effects, failed, {"containers"}))

Step10 ==
    /\ pc = "loop"
    /\ stepNo = 10
    /\ \E failed \in BOOLEAN : LoopBody(10, ExternalStep(ms, effects, failed, {}))

\* after the loop: the success messages, then pkg.SaveConfig
Save ==
    /\ pc = "completed"
    /\ pc' = "returned"
    /\ \E saveErr \in BOOLEAN : store' = SaveConfig(store, <<ms>>, saveErr)
    /\ UNCHANGED <<op, args, ret, stepNo, ms, executed, effects, report>>

Next ==
    \/ CallFindReservedPorts
    \/ CallValidatePortAssignments
    \/ CallFindAvailablePort
    \/ CallGetListeningPorts
    \/ CallInitializePorts
    \/ DeployStart
    \/ Step1
    \/ Step2
    \/ Step3
    \/ Step4
    \/ Step5
    \/ Step6
    \/ Step7
    \/ Step8
    \/ Step9
    \/ Step10
    \/ Save

Spec == Init /\ [][Next]_vars

\* ============================================================ properties
Fields == <<"Port", "GraphQLPort", "DbPort">>

RoleOf(f) == IF f = "Port" THEN "Flink" ELSE IF f = "GraphQLPort" THEN "GraphQL" ELSE "DB"

FieldSet == { Fields[k] : k \in DOMAIN Fields }

\* the non-zero ports a descriptor declares
Declared(m) == { m[f] : f \in FieldSet } \ {0}

\* the role of the first field (Flink, GraphQL, DB order) in which m declares p
FirstRole(m, p) ==
    IF m.Port = p THEN "Flink" ELSE IF m.GraphQLPort = p THEN "GraphQL" ELSE "DB"

\* the (job, field) slots of a job list that hold a non-zero port
Slots(jobs) == { <<i, f>> \in (DOMAIN jobs) \X FieldSet : jobs[i][f] # 0 }

TwoJobsShare(jobs) ==
    \E i, j \in DOMAIN jobs : i < j /\ Declared(jobs[i]) \cap Declared(jobs[j]) # {}

NoSharedPort(jobs) ==
    \A s, t \in Slots(jobs) : s # t => jobs[s[1]][s[2]] # jobs[t[1]][t[2]]

\* C1: when two jobs of the list declare the same non-zero port,
\* FindReservedPorts returns an error and a nil map, and the error names two
\* jobs of the list (the earlier and the later one) that share the reported
\* port, with the role under which the earlier one holds it.
C1_ConflictNamesBothJobs ==
    (op = "FindReservedPorts" /\ TwoJobsShare(args.config.Manuscripts)) =>
        /\ ret.err # NoErr
        /\ ret.nilMap
        /\ LET jobs == args.config.Manuscripts
           IN \E i, j \in DOMAIN jobs :
                 /\ i < j
                 /\ ret.err.port \in Declared(jobs[i]) \cap Declared(jobs[j])
                 /\ ret.err.first = jobs[i].Name
                 /\ ret.err.second = jobs[j].Name
                 /\ ret.err.role = FirstRole(jobs[i], ret.err.port)

\* C2: when no non-zero port value occurs twice in the job list,
\* FindReservedPorts succeeds and its map has exactly the non-zero ports of
\* the jobs as keys, each mapped to the declaring job's name and the role of
\* the declaring field; port 0 is never a key.
C2_IndexIsUnionOfPorts ==
    (op = "FindReservedPorts" /\ NoSharedPort(args.config.Manuscripts)) =>
        LET jobs == args.config.Manuscripts
        IN /\ ret.err = NoErr
           /\ ~ret.nilMap
           /\ DOMAIN ret.reserved = UNION { Declared(jobs[i]) : i \in DOMAIN jobs }
           /\ 0 \notin DOMAIN ret.reserved
           /\ \A s \in Slots(jobs) :
                 ret.reserved[jobs[s[1]][s[2]]] =
                     PortReservation(jobs[s[1]][s[2]], jobs[s[1]].Name, RoleOf(s[2]))

C2_Witness ==
    /\ op = "FindReservedPorts"
    /\ Len(args.config.Manuscripts) = 2
    /\ NoSharedPort(args.config.Manuscripts)
    /\ ret.err = NoErr
    /\ Cardinality(DOMAIN ret.reserved) = 4

\* the reservations of other jobs that a candidate's ports run into
Collisions(m, jobs) ==
    { s \in Slots(jobs) : jobs[s[1]][s[2]] \in Declared(m) /\ jobs[s[1]].Name # m.Name }

\* C3: when the job list has no shared port, ValidatePortAssignments fails
\* exactly when a non-zero port of the candidate is declared by a job with a
\* different name, and the error names such a job and the role of its field.
C3_ValidateFailsOnForeignPort ==
    (op = "ValidatePortAssignments" /\ NoSharedPort(args.config.Manuscripts)) =>
        LET jobs == args.config.Manuscripts
            hit == Collisions(args.ms, jobs)
        IN /\ (ret.err # NoErr) <=> (hit # {})
           /\ ret.err # NoErr =>
                 \E s \in hit :
                    /\ ret.err.port = jobs[s[1]][s[2]]
                    /\ ret.err.first = jobs[s[1]].Name
                    /\ ret.err.role = RoleOf(s[2])

C3_Witness ==
    /\ op = "ValidatePortAssignments"
    /\ NoSharedPort(args.config.Manuscripts)
    /\ args.ms.Port = 8081
    /\ ret.err.kind = "already reserved"
    /\ ret.err.role = "GraphQL"
    /\ \E i \in DOMAIN args.config.Manuscripts :
          /\ args.config.Manuscripts[i].GraphQLPort = 8081
          /\ args.config.Manuscripts[i].Name = ret.err.first

\* the ports a map[int]bool holds as true
Forbidden(u) == { p \in DOMAIN u : u[p] }

\* C4: FindAvailablePort returns the lowest port of startPort..endPort that
\* is not forbidden, fails with port 0 exactly when every port of the range
\* is forbidden (so a forbidden set a..a+k-1 gives a+k, or the failure when
\* a+k > b), and leaves the forbidden set as it was.
C4_LowestFreePort ==
    op = "FindAvailablePort" =>
        LET a == args.startPort
            b == args.endPort
            free == (a..b) \ Forbidden(args.unavailablePorts)
            r == ret.result
        IN /\ (r.err # NoErr) <=> (free = {})
           /\ r.err # NoErr => r.port = 0
           /\ r.err = NoErr => (r.port \in free /\ \A q \in free : r.port <= q)
           /\ \A k \in 0..(MaxSpan + 2) :
                 Forbidden(args.unavailablePorts) = a..(a + k - 1) =>
                     IF a + k <= b THEN r.err = NoErr /\ r.port = a + k
                     ELSE r.err # NoErr
           /\ ret.unavailablePorts = args.unavailablePorts

C4_Witness ==
    /\ op = "FindAvailablePort"
    /\ Forbidden(args.unavailablePorts) = args.startPort..(args.startPort + 1)
    /\ \E p \in DOMAIN args.unavailablePorts : ~args.unavailablePorts[p]
    /\ ret.result.err = NoErr
    /\ ret.result.port = args.startPort + 2

PairwiseDifferent(m) ==
    m.Port # m.GraphQLPort /\ m.Port # m.DbPort /\ m.GraphQLPort # m.DbPort

AllUnset(m) == m.Port = 0 /\ m.GraphQLPort = 0 /\ m.DbPort = 0

\* C5: a successful InitializePorts on a descriptor with all three ports
\* unset leaves three pairwise different ports.
C5_FreshPortsDiffer ==
    (op = "InitializePorts" /\ AllUnset(args.ms) /\ ret.err = NoErr) =>
        PairwiseDifferent(ret.ms)

C5_Witness ==
    /\ op = "InitializePorts"
    /\ AllUnset(args.ms)
    /\ ret.err = NoErr
    /\ ret.ms.Port = 8082
    /\ ret.ms.GraphQLPort = 8083

\* the ports the two tools report, read off their output
HostPorts(e) ==
    IF e.lsofErr THEN {}
    ELSE { e.lsofOut[i][1].digits :
             i \in { j \in DOMAIN e.lsofOut : Len(e.lsofOut[j]) > 0 /\ e.lsofOut[j][1].fits } }

ContainerPorts(e) ==
    UNION { { e.dockerOut[i][k].digits :
                k \in { n \in DOMAIN e.dockerOut[i] : e.dockerOut[i][n].fits } } :
            i \in DOMAIN e.dockerOut }

RangeOf(f) ==
    IF f = "Port" THEN FlinkStart..FlinkEnd
    ELSE IF f = "GraphQLPort" THEN GraphQLStart..GraphQLEnd
    ELSE DbStart..DbEnd

\* the ports InitializePorts chose for the unset roles before Fields[k]
ChosenBefore(k) ==
    { ret.ms[Fields[n]] : n \in { x \in 1..(k - 1) : args.ms[Fields[x]] = 0 } }

\* C6: every port InitializePorts assigns to a role that was unset is the
\* lowest port of the role's range that is neither a host listening port, a
\* container-published port, a port declared in the job list, nor a port
\* chosen for an earlier role of the call; with nothing set and nothing
\* unavailable the job gets 8081, 8082 and 15432.
C6_AssignedPortIsLowestFree ==
    op = "InitializePorts" =>
        LET jobs == args.config.Manuscripts
            taken == HostPorts(args.env) \cup ContainerPorts(args.env)
                     \cup UNION { Declared(jobs[i]) : i \in DOMAIN jobs }
        IN /\ \A k \in DOMAIN Fields :
                 (args.ms[Fields[k]] = 0 /\ ret.ms[Fields[k]] # 0) =>
                     LET free == RangeOf(Fields[k]) \ (taken \cup ChosenBefore(k))
                     IN /\ ret.ms[Fields[k]] \in free
                        /\ \A q \in free : ret.ms[Fields[k]] <= q
           /\ ret.err = NoErr => \A k \in DOMAIN Fields : ret.ms[Fields[k]] # 0
           /\ (AllUnset(args.ms) /\ taken = {} /\ ~args.env.dockerErr) =>
                 (ret.err = NoErr /\ ret.ms.Port = 8081 /\ ret.ms.GraphQLPort = 8082
                                  /\ ret.ms.DbPort = 15432)

C6_Witness ==
    /\ op = "InitializePorts"
    /\ args.ms.Port # 0
    /\ args.ms.GraphQLPort = 0
    /\ args.config.Manuscripts # <<>>
    /\ HostPorts(args.env) # {}
    /\ ContainerPorts(args.env) # {}
    /\ ret.err = NoErr
    /\ ret.ms.GraphQLPort = 8084

\* C7: the ten steps run in order, each at most once, and when a step fails
\* the process exits at once with a report that names that step.
C7_StepsInOrderFailureNamesStep ==
    op = "DeployManuscript" =>
        /\ \A k \in DOMAIN executed : executed[k] = k
        /\ Len(executed) <= Len(steps)
        /\ (pc = "exited" /\ executed # <<>>) =>
              /\ report.kind = "step failed"
              /\ report.name = steps[executed[Len(executed)]]

\* C8: the store is written only after all ten steps succeeded, never in a
\* run in which a step failed, and the descriptor written is the run's
\* descriptor with all three ports non-zero.
C8_StoreWrittenOnlyAfterSuccess ==
    store # <<>> =>
        /\ pc = "returned"
        /\ executed = <<1, 2, 3, 4, 5, 6, 7, 8, 9, 10>>
        /\ report = NoErr
        /\ store = <<ms>>
        /\ ms.Port # 0 /\ ms.GraphQLPort # 0 /\ ms.DbPort # 0
        /\ effects = {"directory", "manuscript file", "compose file", "containers"}

C8_Witness ==
    /\ store # <<>>
    /\ store[1].DbPort = 15433
    /\ store[1].Port = 8082

RangeSeq(s) == { s[i] : i \in DOMAIN s }

\* C9: GetListeningPorts fails exactly when the container engine query
\* fails, then returning no ports; otherwise it returns, without duplicates,
\* the container-published ports together with the host ports, the latter
\* counted only when the host tool ran.
C9_HostToolTolerated ==
    op = "GetListeningPorts" =>
        LET e == args.env
        IN /\ e.dockerErr => (ret.err # NoErr /\ ret.result = <<>>)
           /\ ~e.dockerErr =>
                 /\ ret.err = NoErr
                 /\ Len(ret.result) = Cardinality(RangeSeq(ret.result))
                 /\ RangeSeq(ret.result) = HostPorts(e) \cup ContainerPorts(e)
                 /\ e.lsofErr => RangeSeq(ret.result) = ContainerPorts(e)

C9_Witness ==
    /\ op = "GetListeningPorts"
    /\ args.env.lsofErr
    /\ ~args.env.dockerErr
    /\ \E i \in DOMAIN args.env.lsofOut : args.env.lsofOut[i] = <<Tok(8082), Tok(8081)>>
    /\ ret.err = NoErr
    /\ RangeSeq(ret.result) = {8083}

\* C10: after a successful InitializePorts, whatever ports were pre-set, the
\* three ports of the job are pairwise different.
C10_PortsDifferAfterInit ==
    (op = "InitializePorts" /\ ret.err = NoErr) => PairwiseDifferent(ret.ms)

====
